---- MODULE Spec2Model ----
(***************************************************************************)
(* The 8-puzzle service of src/app.py: the session's game (board and move  *)
(* counter), the request handlers that read and change it, and the A*      *)
(* search with its three heuristics.                                       *)
(*                                                                         *)
(* A board is a sequence of 9 integers; Python's cell index i (0..8) is    *)
(* position i + 1 of the sequence.  An absent session key reads as the     *)
(* getter's default ([] for the board, 0 for the counter).                 *)
(***************************************************************************)
EXTENDS Integers, Sequences, FiniteSets, TLC

VARIABLES
    state,      \* session["state"]: the current board, <<>> when not started
    moves,      \* session["moves"]
    resp,       \* the response to the last request
    search,     \* the locals of a_star_with_path, one loop iteration per step
    shuffle,    \* the list shuffle_tiles holds after rng.shuffle, <<>> outside of it
    tiles,      \* session["tiles"]: the URLs of the tile images, <<>> when absent
    static,     \* the image whose pieces the files static/tile_i_j.png hold
    peer        \* the session of a second client: its state, moves and tiles

vars == <<state, moves, resp, search, shuffle, tiles, static, peer>>

-----------------------------------------------------------------------------
(* Bounds of the model *)

\* start boards of the stepped search lie within this many slides of the goal
MaxDepth == 9
\* the passes of its loop within which a search on such a board is claimed to return
MaxPops == 60
\* the move counter's cap in the service
MaxMoves == 2
\* the move counters' cap when two clients play
TwoMoves == 1
\* the shuffles of an upload lie within this many slides of the goal (or of its twist)
ShuffleDepth == 2
\* the boards of a session of any content lie within this many slides of the goal
\* (or of its twist)
HeldDepth == 4

-----------------------------------------------------------------------------
(* Boards *)

\* Python's None where a board is expected, and where an error text is expected
None == <<>>
NoError == "None"

goal == <<1, 2, 3, 4, 5, 6, 7, 8, 0>>

Abs(x) == IF x < 0 THEN 0 - x ELSE x

RECURSIVE SumSeq(_)
SumSeq(q) == IF q = <<>> THEN 0 ELSE Head(q) + SumSeq(Tail(q))

\* the list left as it is
Unreversed(q) == q

\* path.reverse()
Reverse(q) == [i \in 1..Len(q) |-> q[Len(q) + 1 - i]]

\* divmod(i, 3)
DivRow(i) == i \div 3
ModCol(i) == i % 3

\* s[i] of the Python list, i counted from 0
At(s, i) == s[i + 1]

\* s.index(v), counted from 0; the caller checks Has(s, v) (index raises otherwise)
Has(s, v) == \E i \in 1..Len(s) : s[i] = v
Index(s, v) == (CHOOSE i \in 1..Len(s) : s[i] = v /\ \A j \in 1..(i - 1) : s[j] # v) - 1

\* nxt[zi], nxt[ni] = nxt[ni], nxt[zi]
Swap(s, zi, ni) == [s EXCEPT ![zi + 1] = s[ni + 1], ![ni + 1] = s[zi + 1]]

\* a well-formed board: each of 0..8 exactly once
IsBoard(s) == Len(s) = 9 /\ {s[i] : i \in 1..9} = 0..8

\* the pairs (i, j) of `for i in range(n): for j in range(i + 1, n)`, as positions;
\* those of a list of 9 are computed once
range_pairs(n) == {p \in (1..n) \X (1..n) : p[1] < p[2]}
BoardPairs == range_pairs(9)
pairs(st) == IF Len(st) = 9 THEN BoardPairs ELSE range_pairs(Len(st))

\* the inversions counted with the blank as a tile
is_solvable_blank(st) ==
    LET inv == Cardinality({p \in pairs(st) : st[p[1]] > st[p[2]]})
    IN  inv % 2 = 0

is_solvable(st) ==
    LET inv == Cardinality({p \in pairs(st) :
                   st[p[1]] # 0 /\ st[p[2]] # 0 /\ st[p[1]] > st[p[2]]})
    IN  inv % 2 = 0

-----------------------------------------------------------------------------
(* Heuristics *)

h_manhattan_blank(s) ==
    SumSeq([k \in 1..Len(s) |->
        LET v == s[k]
            i == k - 1
        IN  Abs(DivRow((v + 8) % 9) - DivRow(i)) + Abs(ModCol((v + 8) % 9) - ModCol(i))])

h_manhattan(s) ==
    SumSeq([k \in 1..Len(s) |->
        LET v == s[k]
            i == k - 1
        IN  IF v = 0 THEN 0
            ELSE Abs(DivRow(v - 1) - DivRow(i)) + Abs(ModCol(v - 1) - ModCol(i))])

h_misplaced(s) == Cardinality({k \in 1..Len(s) : s[k] # 0 /\ s[k] # k})

\* lines 109-116: the pairs of non-zero values of `line` in descending order
conflicts(line) ==
    Cardinality({p \in (1..Len(line)) \X (1..Len(line)) :
        p[1] < p[2] /\ line[p[1]] # 0 /\ line[p[2]] # 0 /\ line[p[1]] > line[p[2]]})

h_linear_conflict(s) ==
    LET man == h_manhattan(s)
        rows == SumSeq([r1 \in 1..3 |->
                    LET r == r1 - 1
                        InRow(v) == DivRow(v - 1) = r
                    IN  conflicts(SelectSeq(<<At(s, r * 3), At(s, r * 3 + 1),
                                              At(s, r * 3 + 2)>>, InRow))])
        cols == SumSeq([c1 \in 1..3 |->
                    LET c == c1 - 1
                        InCol(v) == ModCol(v - 1) = c
                    IN  conflicts(SelectSeq(<<At(s, c), At(s, 3 + c), At(s, 6 + c)>>,
                                            InCol))])
    IN  man + 2 * (rows + cols)

\* the table with h_misplaced as its default
HEURISTICS_misplaced(heuristic, s) ==
    CASE heuristic = "manhattan" -> h_manhattan(s)
      [] heuristic = "misplaced" -> h_misplaced(s)
      [] heuristic = "linear"    -> h_linear_conflict(s)
      [] OTHER                   -> h_misplaced(s)

\* HEURISTICS.get(heuristic, h_manhattan)
HEURISTICS(heuristic, s) ==
    CASE heuristic = "manhattan" -> h_manhattan(s)
      [] heuristic = "misplaced" -> h_misplaced(s)
      [] heuristic = "linear"    -> h_linear_conflict(s)
      [] OTHER                   -> h_manhattan(s)

-----------------------------------------------------------------------------
(* a_star_with_path *)

HeuristicNames == {"manhattan", "misplaced", "linear"}

\* next(count()): a new counter on every call, so its first value every time
next_count == 0

BoardLess(a, b) ==
    \E i \in 1..Len(a) : i <= Len(b) /\ a[i] < b[i] /\ \A j \in 1..(i - 1) : a[j] = b[j]

\* the order on (f, counter) alone
EntryLess_short(a, b) ==
    \/ a.f < b.f
    \/ a.f = b.f /\ a.cnt < b.cnt

\* Python's order on the frontier's tuples (f, counter, board).  An entry also carries
\* ins, the number of pushes before it, which no comparison reads.
EntryLess(a, b) ==
    \/ a.f < b.f
    \/ a.f = b.f /\ a.cnt < b.cnt
    \/ a.f = b.f /\ a.cnt = b.cnt /\ BoardLess(a.board, b.board)

heappush_front(pq, e) == <<e>> \o pq

\* The heap is kept as the sequence of its entries in ascending order: heappop returns
\* a least entry, which is all the search observes of heapq.
heappush(pq, e) ==
    LET k == Cardinality({i \in 1..Len(pq) : ~EntryLess(e, pq[i])})
    IN  SubSeq(pq, 1, k) \o <<e>> \o SubSeq(pq, k + 1, Len(pq))

\* no entry popped yet
NoEntry == [f |-> 0, cnt |-> 0, board |-> None, ins |-> -1]

\* lines 127-133
a_star_init(initial_state, heuristic) ==
    LET start == initial_state
        h0 == HEURISTICS(heuristic, start)
    IN  [status |-> "running", heuristic |-> heuristic, start |-> start,
         parent |-> (start :> None), g |-> (start :> 0), f |-> (start :> h0),
         pq |-> <<[f |-> h0, cnt |-> next_count, board |-> start, ins |-> 0]>>,
         pushes |-> 1, popped |-> NoEntry, pushesAtPop |-> 0,
         count |-> 0, path |-> <<>>]

\* lines 143-149
nbrs(zi) ==
    LET x == DivRow(zi)
        y == ModCol(zi)
    IN  (IF x > 0 THEN <<zi - 3>> ELSE <<>>) \o (IF x < 2 THEN <<zi + 3>> ELSE <<>>)
        \o (IF y > 0 THEN <<zi - 1>> ELSE <<>>) \o (IF y < 2 THEN <<zi + 1>> ELSE <<>>)

\* the test of line 155 turned round: only boards already recorded are recorded
relax_seen(a, cur, zi, ni) ==
    LET nxt == Swap(cur, zi, ni)
        ng == a.g[cur] + 1
    IN  IF nxt \in DOMAIN a.g /\ ng < a.g[nxt]
        THEN [a EXCEPT !.g = (nxt :> ng) @@ @]
        ELSE a

\* the relaxation with `ng = g[cur]` for line 154
relax_flat(a, cur, zi, ni) ==
    LET nxt == Swap(cur, zi, ni)
        ng == a.g[cur]
    IN  IF nxt \notin DOMAIN a.g \/ ng < a.g[nxt]
        THEN LET fn == ng + HEURISTICS(a.heuristic, nxt)
             IN  [a EXCEPT !.parent = (nxt :> cur) @@ @,
                           !.g = (nxt :> ng) @@ @,
                           !.f = (nxt :> fn) @@ @,
                           !.pq = heappush(@, [f |-> fn, cnt |-> next_count,
                                               board |-> nxt, ins |-> a.pushes]),
                           !.pushes = @ + 1]
        ELSE a

\* lines 151-159, one neighbour
relax(a, cur, zi, ni) ==
    LET nxt == Swap(cur, zi, ni)
        ng == a.g[cur] + 1
    IN  IF nxt \notin DOMAIN a.g \/ ng < a.g[nxt]
        THEN LET fn == ng + HEURISTICS(a.heuristic, nxt)
             IN  [a EXCEPT !.parent = (nxt :> cur) @@ @,
                           !.g = (nxt :> ng) @@ @,
                           !.f = (nxt :> fn) @@ @,
                           !.pq = heappush(@, [f |-> fn, cnt |-> next_count,
                                               board |-> nxt, ins |-> a.pushes]),
                           !.pushes = @ + 1]
        ELSE a

\* line 150: for ni in nbrs
RECURSIVE expand(_, _, _, _)
expand(a, cur, zi, ns) ==
    IF ns = <<>> THEN a ELSE expand(relax(a, cur, zi, Head(ns)), cur, zi, Tail(ns))

\* the walk back that appends the start board as well
RECURSIVE path_back_start(_, _)
path_back_start(parent, cur) ==
    IF parent[cur] = None THEN <<cur>> ELSE <<cur>> \o path_back_start(parent, parent[cur])

\* lines 137-140: the boards appended while walking the parents back from cur
RECURSIVE path_back(_, _)
path_back(parent, cur) ==
    IF parent[cur] = None THEN <<>> ELSE <<cur>> \o path_back(parent, parent[cur])

\* One pass of `while pq:` (lines 134-160): the loop test, the pop, the goal test and
\* the expansion of the popped board.
a_star_iter(a) ==
    IF a.pq = <<>>
    THEN [a EXCEPT !.status = "exhausted", !.count = -1, !.path = <<>>]
    ELSE LET e == Head(a.pq)
             cur == e.board
             b == [a EXCEPT !.pq = Tail(@), !.popped = e, !.pushesAtPop = a.pushes]
         IN  IF cur = goal
             THEN LET path == Reverse(path_back(a.parent, cur))
                  IN  [b EXCEPT !.status = "solved", !.count = Len(path), !.path = path]
             ELSE IF ~Has(cur, 0)
             THEN [b EXCEPT !.status = "raised"]   \* cur.index(0): ValueError
             ELSE LET zi == Index(cur, 0)
                  IN  expand(b, cur, zi, nbrs(zi))

\* n passes of the loop, or fewer when the search ends first
RECURSIVE a_star_passes(_, _)
a_star_passes(a, n) ==
    IF a.status # "running" THEN a
    ELSE IF n = 1 THEN a_star_iter(a)
    ELSE a_star_passes(a_star_passes(a, n \div 2), n - n \div 2)

\* the loop run until it returns or raises
RECURSIVE a_star_loop(_, _)
a_star_loop(a, n) ==
    IF a.status # "running" THEN a ELSE a_star_loop(a_star_passes(a, n), 2 * n)

\* lines 125-160: the call as its callers see it
a_star_with_path(initial_state, heuristic) ==
    LET a == a_star_loop(a_star_init(initial_state, heuristic), 1)
    IN  [status |-> a.status, count |-> a.count, path |-> a.path]

NoSearch == [status |-> "idle"]

-----------------------------------------------------------------------------
(* Shortest distances, by breadth-first search from the goal *)

Slides(s) == LET zi == Index(s, 0) IN {Swap(s, zi, nbrs(zi)[k]) : k \in 1..Len(nbrs(zi))}

\* The boards are kept in buckets, one for each pair <<cell of the blank, cell of
\* tile 1>>; a slide into the blank's cell ni moves a board from the bucket Source(zi, k).
Keys == {k \in (0..8) \X (0..8) : k[1] # k[2]}
Key(b) == <<Index(b, 0), Index(b, 1)>>
Source(zi, k) == IF k[2] = zi THEN <<zi, k[1]>> ELSE <<zi, k[2]>>
NoBoards == [k \in Keys |-> {}]

\* the layers of the search: each is the boards one slide from the layer before that
\* are not in the layer before it, until a layer is empty
RECURSIVE BfsLayers(_, _)
BfsLayers(ls, prev) ==
    LET fr == ls[Len(ls)]
    IN  IF fr = NoBoards THEN SubSeq(ls, 1, Len(ls) - 1)
        ELSE LET nx == [k \in Keys |->
                          (UNION {{Swap(s, zi, k[1]) : s \in fr[Source(zi, k)]} :
                                     zi \in {nbrs(k[1])[j] : j \in 1..Len(nbrs(k[1]))}})
                          \ prev[k]]
             IN  BfsLayers(Append(ls, nx), fr)

\* ReachLayers[d + 1][k]: the boards of bucket k at distance d from the goal
ReachLayers == BfsLayers(<<[k \in Keys |-> IF k = Key(goal) THEN {goal} ELSE {}]>>, NoBoards)

\* the greatest distance of a board from the goal
Diameter == Len(ReachLayers) - 1

\* the breadth-first distance from b to the goal, -1 when no slides lead there
Dist(b) ==
    IF ~IsBoard(b) THEN -1
    ELSE LET k == Key(b)
             ds == {d \in 0..Diameter : b \in ReachLayers[d + 1][k]}
         IN  IF ds = {} THEN -1 ELSE CHOOSE d \in ds : TRUE

Reachable(b) ==
    IsBoard(b) /\ LET k == Key(b) IN \E d \in 0..Diameter : b \in ReachLayers[d + 1][k]

RECURSIVE SumCard(_, _)
SumCard(f, S) ==
    IF S = {} THEN 0
    ELSE LET k == CHOOSE k \in S : TRUE IN Cardinality(f[k]) + SumCard(f, S \ {k})

\* the number of boards that slides from the goal reach
ReachableCount == SumSeq([d \in 1..Len(ReachLayers) |-> SumCard(ReachLayers[d], Keys)])

\* the boards within k slides of the goal
Within(k) == UNION {ReachLayers[d + 1][key] : d \in 0..k, key \in Keys}

NearBoards == Within(MaxDepth)

\* the board with the tiles 1 and 2 exchanged: a permutation of the other parity
Twist(b) == [i \in 1..Len(b) |-> IF b[i] = 1 THEN 2 ELSE IF b[i] = 2 THEN 1 ELSE b[i]]

\* the shuffles the model lets rng produce
ShuffleCandidates == Within(ShuffleDepth) \cup {Twist(b) : b \in Within(ShuffleDepth)}

\* the state parameters the model sends
QueryInputs ==
    { <<"1", "2", "3", "4", "5", "6", "7", "8", "0">>,
      <<"1", "2", "3", "4", "5", "6", "7", "0", "8">>,
      <<"1", "2", "3", "4", "5", "6", "0", "7", "8">>,
      <<"1", "2", "3", "4", "5", "6", "8", "7", "0">>,
      <<"1", "2", "3", "4", "5", "6", "7", "8">>,
      <<"1", "1", "1", "1", "1", "1", "1", "1", "1">>,
      <<"0", "0", "0", "0", "0", "0", "0", "0", "0">>,
      <<"1", "2", "3", "4", "5", "6", "7", "8", "9">>,
      <<"1", "2", "3", "x", "5", "6", "7", "8", "0">> }

\* a board far from the goal
DeepBoard == <<8, 5, 7, 6, 0, 4, 3, 2, 1>>

-----------------------------------------------------------------------------
(* The requests *)

\* A response: its route, the HTTP status, the JSON body's error (NoError when the body
\* has none), its move count (minimum_moves, moves, move_count) and path or board
\* (path, next_state, state), its solved flag, and `passed`: the board handed to
\* a_star_with_path while the request was served, None when the search was not called.
Response(route, http, error, count, path, solved, passed) ==
    [route |-> route, http |-> http, error |-> error, count |-> count,
     path |-> path, solved |-> solved, passed |-> passed]

NoResp == Response("none", 0, NoError, 0, <<>>, FALSE, None)

HttpOk == 200
HttpBadRequest == 400
HttpServerError == 500

\* an exception no handler catches: Flask answers 500 and the session is not saved
Raised(route, passed) == Response(route, HttpServerError, NoError, 0, <<>>, FALSE, passed)

\* int(x) of a request field: the decimal numerals the model sends and their values;
\* any other text makes int() raise ValueError
Numerals ==
    [x \in {"0", "1", "2", "3", "4", "5", "6", "7", "8", "9"} |->
        CASE x = "0" -> 0 [] x = "1" -> 1 [] x = "2" -> 2 [] x = "3" -> 3 [] x = "4" -> 4
          [] x = "5" -> 5 [] x = "6" -> 6 [] x = "7" -> 7 [] x = "8" -> 8 [] x = "9" -> 9]
IsNumeral(x) == x \in DOMAIN Numerals
int(x) == Numerals[x]

\* lines 189-190 with an empty or missing state parameter: the session is cleared
home_get ==
    /\ state' = <<>>
    /\ moves' = 0
    /\ tiles' = <<>>
    /\ resp' = Response("home", HttpOk, NoError, 0, <<>>, FALSE, None)
    /\ UNCHANGED <<search, shuffle, static, peer>>

\* lines 213-223: GET /?state=qs, qs given as its comma-separated fields; a field is
\* an integer when int() reads it and a string when int() raises
home_query(qs) ==
    /\ qs # <<>>
    /\ IF \A k \in 1..Len(qs) : IsNumeral(qs[k])
       THEN LET st == [k \in 1..Len(qs) |-> int(qs[k])]
            IN  IF Len(st) = 9 /\ is_solvable(st)
                THEN state' = st /\ moves' = 0
                ELSE UNCHANGED <<state, moves>>
       ELSE UNCHANGED <<state, moves>>
    /\ resp' = Response("home", HttpOk, NoError, 0, <<>>, FALSE, None)
    /\ UNCHANGED <<search, shuffle, tiles, static, peer>>

\* the shuffle returned untested
shuffle_tiles_any(candidates) == candidates

\* lines 64-70: the shuffles rng can produce are the permutations of 1..8, 0; the
\* loop returns the first that is_solvable accepts
shuffle_tiles(candidates) == {p \in candidates : is_solvable(p)}

\* lines 87-89: the files split_image writes and the URLs it returns are the same for
\* every image and every session
TileUrls ==
    << "/static/tile_0_0.png", "/static/tile_0_1.png", "/static/tile_0_2.png",
       "/static/tile_1_0.png", "/static/tile_1_1.png", "/static/tile_1_2.png",
       "/static/tile_2_0.png", "/static/tile_2_1.png", "/static/tile_2_2.png" >>

\* the images the model uploads, and the folder before any upload
Images == {"a", "b"}
NoImage == "none"

\* a session without keys
NoSession == [state |-> <<>>, moves |-> 0, tiles |-> <<>>]

\* lines 192-211: POST / with an acceptable image img; split_image (72-90) writes its
\* pieces over the files in the static folder
home_upload(img) ==
    /\ static' = img
    /\ tiles' = TileUrls
    /\ \E st \in shuffle_tiles(ShuffleCandidates) : state' = st
    /\ moves' = 0
    /\ resp' = Response("home", HttpOk, NoError, 0, <<>>, FALSE, None)
    /\ UNCHANGED <<search, shuffle, peer>>

\* lines 193-205: POST / without a file, or with one that is refused
home_upload_refused ==
    /\ resp' = Response("home", HttpBadRequest, NoError, 0, <<>>, FALSE, None)
    /\ UNCHANGED <<state, moves, search, shuffle, tiles, static, peer>>

\* the move with `<= 1` for the test of line 399
move_tile_loose(field, cap) ==
    /\ UNCHANGED <<search, shuffle, tiles, static, peer>>
    /\ IF state = <<>> \/ ~IsNumeral(field)
       THEN /\ resp' = Response("move", HttpOk, NoError, moves, state, FALSE, None)
            /\ UNCHANGED <<state, moves>>
       ELSE IF ~Has(state, 0) \/ ~Has(state, int(field))
       THEN /\ resp' = Raised("move", None)
            /\ UNCHANGED <<state, moves>>
       ELSE LET blank == Index(state, 0)
                ti == Index(state, int(field))
            IN  IF Abs(DivRow(blank) - DivRow(ti)) + Abs(ModCol(blank) - ModCol(ti)) <= 1
                THEN /\ moves < cap
                     /\ state' = Swap(state, blank, ti)
                     /\ moves' = moves + 1
                     /\ resp' = Response("move", HttpOk, NoError, moves', state',
                                         state' = goal, None)
                ELSE /\ resp' = Response("move", HttpOk, NoError, moves, state, FALSE, None)
                     /\ UNCHANGED <<state, moves>>

\* lines 381-404; field is the form's tile field, and cap the model's bound on the
\* move counter
move_tile(field, cap) ==
    /\ UNCHANGED <<search, shuffle, tiles, static, peer>>
    /\ IF state = <<>> \/ ~IsNumeral(field)
       THEN /\ resp' = Response("move", HttpOk, NoError, moves, state, FALSE, None)
            /\ UNCHANGED <<state, moves>>
       ELSE IF ~Has(state, 0) \/ ~Has(state, int(field))
       THEN /\ resp' = Raised("move", None)
            /\ UNCHANGED <<state, moves>>
       ELSE LET blank == Index(state, 0)
                ti == Index(state, int(field))
            IN  IF Abs(DivRow(blank) - DivRow(ti)) + Abs(ModCol(blank) - ModCol(ti)) = 1
                THEN /\ moves < cap
                     /\ state' = Swap(state, blank, ti)
                     /\ moves' = moves + 1
                     /\ resp' = Response("move", HttpOk, NoError, moves', state',
                                         state' = goal, None)
                ELSE /\ resp' = Response("move", HttpOk, NoError, moves, state, FALSE, None)
                     /\ UNCHANGED <<state, moves>>

\* lines 406-409
show_solution ==
    /\ state' = goal
    /\ resp' = Response("solution", HttpOk, NoError, 0, state', FALSE, None)
    /\ UNCHANGED <<moves, search, shuffle, tiles, static, peer>>

\* what a query answers when the search raised
QueryRaised(route, r, st) == r.status = "raised" /\ resp' = Raised(route, st)

\* lines 411-418
minimum_moves(heur) ==
    /\ UNCHANGED <<state, moves, search, shuffle, tiles, static, peer>>
    /\ IF state # <<>> /\ is_solvable(state)
       THEN LET r == a_star_with_path(state, heur)
            IN  \/ QueryRaised("minimum-moves", r, state)
                \/ /\ r.status # "raised"
                   /\ resp' = Response("minimum-moves", HttpOk, NoError, r.count, <<>>,
                                       FALSE, state)
       ELSE resp' = Response("minimum-moves", HttpOk,
                             "This puzzle state is not solvable or not started",
                             0, <<>>, FALSE, None)

\* a solve that plays the path it found: the session's board becomes the path's last
solve_played(heur) ==
    /\ UNCHANGED <<moves, search, shuffle, tiles, static, peer>>
    /\ IF state # <<>> /\ is_solvable(state)
       THEN LET r == a_star_with_path(state, heur)
            IN  \/ QueryRaised("solve", r, state) /\ UNCHANGED state
                \/ /\ r.status # "raised"
                   /\ state' = IF r.path # <<>> THEN r.path[Len(r.path)] ELSE state
                   /\ resp' = Response("solve", HttpOk, NoError, r.count, r.path,
                                       FALSE, state)
       ELSE /\ resp' = Response("solve", HttpOk, "No solution available",
                                0, <<>>, FALSE, None)
            /\ UNCHANGED state

\* lines 420-427
solve(heur) ==
    /\ UNCHANGED <<state, moves, search, shuffle, tiles, static, peer>>
    /\ IF state # <<>> /\ is_solvable(state)
       THEN LET r == a_star_with_path(state, heur)
            IN  \/ QueryRaised("solve", r, state)
                \/ /\ r.status # "raised"
                   /\ resp' = Response("solve", HttpOk, NoError, r.count, r.path,
                                       FALSE, state)
       ELSE resp' = Response("solve", HttpOk, "No solution available",
                             0, <<>>, FALSE, None)

\* the hint without the test of line 432: on a board that fails it the search runs
\* until its frontier is empty and returns (-1, [])
hint_unguarded ==
    /\ UNCHANGED <<state, moves, search, shuffle, tiles, static, peer>>
    /\ IF state # <<>> /\ is_solvable(state)
       THEN LET r == a_star_with_path(state, "manhattan")
            IN  IF r.path # <<>>
                THEN resp' = Response("hint", HttpOk, NoError, 0, r.path[1], FALSE, state)
                ELSE resp' = Response("hint", HttpOk, "No hint available",
                                      0, <<>>, FALSE, state)
       ELSE resp' = Response("hint", HttpOk, "No hint available", 0, <<>>, FALSE, state)

\* lines 429-436
hint ==
    /\ UNCHANGED <<state, moves, search, shuffle, tiles, static, peer>>
    /\ IF state # <<>> /\ is_solvable(state)
       THEN LET r == a_star_with_path(state, "manhattan")
            IN  \/ QueryRaised("hint", r, state)
                \/ /\ r.status # "raised"
                   /\ IF r.path # <<>>
                      THEN resp' = Response("hint", HttpOk, NoError, 0, r.path[1],
                                            FALSE, state)
                      ELSE resp' = Response("hint", HttpOk, "No hint available",
                                            0, <<>>, FALSE, state)
       ELSE resp' = Response("hint", HttpOk, "No hint available", 0, <<>>, FALSE, None)

\* lines 438-441
reset ==
    /\ state' = <<>>
    /\ moves' = 0
    /\ tiles' = <<>>
    /\ resp' = Response("reset", HttpOk, NoError, 0, <<>>, FALSE, None)
    /\ UNCHANGED <<search, shuffle, static, peer>>

-----------------------------------------------------------------------------
(* The service: one session and its requests *)

\* the heuristic parameter of a query: the three names and one the table lacks
HeuristicInputs == HeuristicNames \cup {"euclid"}

\* the tile field of a move: the tiles, a number no board holds, and a non-number
TileInputs == DOMAIN Numerals \cup {"x"}

Init ==
    /\ state = <<>>
    /\ moves = 0
    /\ resp = NoResp
    /\ search = NoSearch
    /\ shuffle = <<>>
    /\ tiles = <<>> /\ static = NoImage /\ peer = NoSession

Next ==
    \/ home_get
    \/ \E qs \in QueryInputs : home_query(qs)
    \/ \E img \in Images : home_upload(img)
    \/ home_upload_refused
    \/ \E field \in TileInputs : move_tile(field, MaxMoves)
    \/ show_solution
    \/ \E heur \in HeuristicInputs : minimum_moves(heur)
    \/ \E heur \in HeuristicInputs : solve(heur)
    \/ hint
    \/ reset

Spec == Init /\ [][Next]_vars

-----------------------------------------------------------------------------
(* A game played: a session that starts a game by upload, moves tiles, asks for the
   solution and queries *)

NextPlay ==
    \/ \E img \in Images : home_upload(img)
    \/ \E field \in TileInputs : move_tile(field, MaxMoves)
    \/ show_solution
    \/ \E heur \in HeuristicNames : minimum_moves(heur)
    \/ \E heur \in HeuristicNames : solve(heur)

SpecPlay == Init /\ [][NextPlay]_vars

-----------------------------------------------------------------------------
(* Two clients: the handlers serve the requests of both, each request carrying its
   client's session cookie.  The first client's session is state, moves and tiles;
   the second's is peer.  The static folder is the server's, shared by both. *)

\* lines 192-211 with the second client's cookie
peer_upload(img) ==
    /\ static' = img
    /\ \E st \in shuffle_tiles(ShuffleCandidates) :
           peer' = [state |-> st, moves |-> 0, tiles |-> TileUrls]
    /\ resp' = Response("home", HttpOk, NoError, 0, <<>>, FALSE, None)
    /\ UNCHANGED <<state, moves, tiles, search, shuffle>>

\* lines 381-404 with the second client's cookie
peer_move(field, cap) ==
    /\ UNCHANGED <<state, moves, tiles, static, search, shuffle>>
    /\ IF peer.state = <<>> \/ ~IsNumeral(field)
       THEN /\ resp' = Response("move", HttpOk, NoError, peer.moves, peer.state,
                                FALSE, None)
            /\ UNCHANGED peer
       ELSE IF ~Has(peer.state, 0) \/ ~Has(peer.state, int(field))
       THEN /\ resp' = Raised("move", None)
            /\ UNCHANGED peer
       ELSE LET blank == Index(peer.state, 0)
                ti == Index(peer.state, int(field))
            IN  IF Abs(DivRow(blank) - DivRow(ti)) + Abs(ModCol(blank) - ModCol(ti)) = 1
                THEN /\ peer.moves < cap
                     /\ peer' = [peer EXCEPT !.state = Swap(peer.state, blank, ti),
                                             !.moves = peer.moves + 1]
                     /\ resp' = Response("move", HttpOk, NoError, peer'.moves,
                                         peer'.state, peer'.state = goal, None)
                ELSE /\ resp' = Response("move", HttpOk, NoError, peer.moves,
                                         peer.state, FALSE, None)
                     /\ UNCHANGED peer

\* lines 429-436 with the second client's cookie
peer_hint ==
    /\ UNCHANGED <<state, moves, tiles, static, peer, search, shuffle>>
    /\ IF peer.state # <<>> /\ is_solvable(peer.state)
       THEN LET r == a_star_with_path(peer.state, "manhattan")
            IN  \/ QueryRaised("hint", r, peer.state)
                \/ /\ r.status # "raised"
                   /\ IF r.path # <<>>
                      THEN resp' = Response("hint", HttpOk, NoError, 0, r.path[1],
                                            FALSE, peer.state)
                      ELSE resp' = Response("hint", HttpOk, "No hint available",
                                            0, <<>>, FALSE, peer.state)
       ELSE resp' = Response("hint", HttpOk, "No hint available", 0, <<>>, FALSE, None)

NextTwo ==
    \/ \E img \in Images : home_upload(img)
    \/ \E field \in TileInputs : move_tile(field, TwoMoves)
    \/ hint
    \/ \E img \in Images : peer_upload(img)
    \/ \E field \in TileInputs : peer_move(field, TwoMoves)
    \/ peer_hint

SpecTwo == Init /\ [][NextTwo]_vars

-----------------------------------------------------------------------------
(* The start of a search: lines 127-133 of a_star_with_path, which apply the
   heuristic to the start board, on any board that slides from the goal reach (the
   boards an upload can shuffle to) *)

InitStart ==
    /\ \E d \in 0..Diameter : \E k \in Keys : state \in ReachLayers[d + 1][k]
    /\ moves = 0
    /\ resp = Response("home", HttpOk, NoError, 0, <<>>, FALSE, None)
    /\ search = NoSearch
    /\ shuffle = <<>>
    /\ tiles = <<>> /\ static = NoImage /\ peer = NoSession

AStarStart ==
    /\ search = NoSearch
    /\ \E heuristic \in HeuristicNames : search' = a_star_init(state, heuristic)
    /\ UNCHANGED <<state, moves, resp, shuffle, tiles, static, peer>>

NextStart == AStarStart

SpecStart == InitStart /\ [][NextStart]_vars

-----------------------------------------------------------------------------
(* The stepped search: a_star_with_path on a board near the goal *)

InitAStar ==
    /\ state \in NearBoards
    /\ moves = 0
    /\ resp = NoResp
    /\ \E heuristic \in HeuristicNames : search = a_star_init(state, heuristic)
    /\ shuffle = <<>>
    /\ tiles = <<>> /\ static = NoImage /\ peer = NoSession

AStarIter ==
    /\ search.status = "running"
    /\ search' = a_star_iter(search)
    /\ UNCHANGED <<state, moves, resp, shuffle, tiles, static, peer>>

NextAStar == AStarIter

SpecAStar == InitAStar /\ [][NextAStar]_vars

-----------------------------------------------------------------------------
(* The stepped search called with a heuristic name the table lacks *)

UnknownNames == HeuristicInputs \ HeuristicNames

InitNamed ==
    /\ state \in NearBoards
    /\ moves = 0
    /\ resp = NoResp
    /\ \E heuristic \in UnknownNames : search = a_star_init(state, heuristic)
    /\ shuffle = <<>>
    /\ tiles = <<>> /\ static = NoImage /\ peer = NoSession

SpecNamed == InitNamed /\ [][NextAStar]_vars

-----------------------------------------------------------------------------
(* The stepped search on the boards near the goal and, with the conflict heuristic,
   on a board 18 slides from it *)

MidBoard == <<0, 3, 2, 5, 1, 6, 7, 8, 4>>

InitMid ==
    /\ \/ /\ state \in NearBoards
          /\ \E heuristic \in HeuristicNames : search = a_star_init(state, heuristic)
       \/ /\ state = MidBoard
          /\ search = a_star_init(state, "linear")
    /\ moves = 0
    /\ resp = NoResp
    /\ shuffle = <<>>
    /\ tiles = <<>> /\ static = NoImage /\ peer = NoSession

SpecMid == InitMid /\ [][NextAStar]_vars

-----------------------------------------------------------------------------
(* The conflict heuristic near and far: a session whose upload shuffled to a board
   near the goal or to DeepBoard, queried with heuristic=linear *)

InitFar ==
    /\ state \in NearBoards \cup {DeepBoard}
    /\ moves = 0
    /\ resp = Response("home", HttpOk, NoError, 0, <<>>, FALSE, None)
    /\ search = NoSearch
    /\ shuffle = <<>>
    /\ tiles = <<>> /\ static = NoImage /\ peer = NoSession

NextFar ==
    \/ minimum_moves("linear")
    \/ solve("linear")

SpecFar == InitFar /\ [][NextFar]_vars

-----------------------------------------------------------------------------
(* The queries on a session of any content: the session is a cookie signed with
   app.secret_key, whose default (line 20) is public, so a client can send a session
   that holds any board.  Here: the boards near the goal and their twists, which are
   the permutations of odd parity. *)

HeldBoards == Within(HeldDepth) \cup {Twist(b) : b \in Within(HeldDepth)}

InitHeld ==
    /\ state \in HeldBoards
    /\ moves = 0
    /\ resp = NoResp
    /\ search = NoSearch
    /\ shuffle = <<>>
    /\ tiles = <<>> /\ static = NoImage /\ peer = NoSession

NextHeld ==
    \/ \E heur \in HeuristicInputs : minimum_moves(heur)
    \/ \E heur \in HeuristicInputs : solve(heur)
    \/ hint

SpecHeld == InitHeld /\ [][NextHeld]_vars

-----------------------------------------------------------------------------
(* The shuffle: shuffle_tiles (lines 64-70) from the list rng.shuffle left, which can
   be any permutation of 1..8, 0, to the board the upload stores *)

InitShuffle ==
    /\ state = <<>>
    /\ moves = 0
    /\ resp = NoResp
    /\ search = NoSearch
    /\ \E x1 \in 0..8 : \E x2 \in (0..8) \ {x1} : \E x3 \in (0..8) \ {x1, x2} :
       \E x4 \in (0..8) \ {x1, x2, x3} : \E x5 \in (0..8) \ {x1, x2, x3, x4} :
       \E x6 \in (0..8) \ {x1, x2, x3, x4, x5} :
       \E x7 \in (0..8) \ {x1, x2, x3, x4, x5, x6} :
       \E x8 \in (0..8) \ {x1, x2, x3, x4, x5, x6, x7} :
       \E x9 \in (0..8) \ {x1, x2, x3, x4, x5, x6, x7, x8} :
           shuffle = <<x1, x2, x3, x4, x5, x6, x7, x8, x9>>
    /\ tiles = <<>> /\ static = NoImage /\ peer = NoSession

\* lines 68-70 and 208-209: the list passes the test, is returned and stored
ShuffleReturn ==
    /\ resp = NoResp
    /\ is_solvable(shuffle)
    /\ state' = shuffle
    /\ moves' = 0
    /\ resp' = Response("home", HttpOk, NoError, 0, <<>>, FALSE, None)
    /\ UNCHANGED <<search, shuffle, tiles, static, peer>>

\* the cells whose exchange with the next cell the model lets rng.shuffle produce
ShuffleCells == {0, 7}

\* lines 66-68: the list fails the test and is shuffled again
ShuffleAgain ==
    /\ resp = NoResp
    /\ ~is_solvable(shuffle)
    /\ \E i \in ShuffleCells : shuffle' = Swap(shuffle, i, i + 1)
    /\ UNCHANGED <<state, moves, resp, search, tiles, static, peer>>

NextShuffle == ShuffleReturn \/ ShuffleAgain

SpecShuffle == InitShuffle /\ [][NextShuffle]_vars

-----------------------------------------------------------------------------
(* Claims *)

Admissible == {"manhattan", "misplaced"}

\* the entries popped so far: every entry pushed is popped or still in the frontier
Pops(a) == a.pushes - Len(a.pq)

\* C1: on every solvable board (here: every board within MaxDepth slides of the
\* goal), a_star_with_path with "manhattan" or "misplaced" returns, and the count it
\* returns is the breadth-first distance from the board to the goal.
\* It returns within MaxPops passes of its loop: a pass either returns or pops one
\* entry, so a search that ran on would pop more than that.
C1_AStarOptimal ==
    (search.heuristic \in Admissible) =>
        /\ Pops(search) <= MaxPops
        /\ search.status # "running" =>
               search.status = "solved" /\ search.count = Dist(search.start)

C1_Witness ==
    /\ search.status = "solved"
    /\ search.heuristic = "misplaced"
    /\ search.count = MaxDepth

\* C2: on every solvable board, a_star_with_path with "linear" returns the
\* breadth-first distance from the board to the goal.
C2_LinearOptimal ==
    (resp.route \in {"minimum-moves", "solve"} /\ resp.error = NoError) =>
        resp.count = Dist(state)

\* the heuristic's value on the start board, as line 130 stored it
StartEstimate == search.f[search.start]

\* C3: on every board that slides from the goal reach, the conflict heuristic is at
\* most the breadth-first distance from the board to the goal.
C3_LinearAdmissible ==
    (search.status = "running" /\ search.heuristic = "linear") =>
        /\ StartEstimate = h_linear_conflict(state)
        /\ StartEstimate <= Dist(state)

\* C4: on every board that slides from the goal reach, the manhattan and misplaced
\* heuristics are non-negative and at most the breadth-first distance from the board
\* to the goal, and both are 0 on the goal.
C4_Admissible ==
    (search.status = "running" /\ search.heuristic \in Admissible) =>
        /\ StartEstimate = HEURISTICS(search.heuristic, state)
        /\ 0 <= StartEstimate /\ StartEstimate <= Dist(state)
        /\ state = goal => h_manhattan(state) = 0 /\ h_misplaced(state) = 0

\* a board at the greatest distance from the goal, which the manhattan heuristic
\* underestimates
C4_Witness ==
    /\ search.status = "running" /\ search.heuristic = "manhattan"
    /\ Dist(state) = Diameter
    /\ StartEstimate = h_manhattan(state)
    /\ StartEstimate < Diameter

\* C5: a permutation of 0..8 passes is_solvable exactly when slides from the goal
\* board reach it, and slides reach exactly 181,440 boards, half of the 362,880
\* permutations.
C5_SolvableIffReachable ==
    /\ is_solvable(shuffle) <=> Reachable(shuffle)
    /\ ReachableCount = 181440
    /\ 2 * ReachableCount = 362880

\* the shuffle returned a board at the greatest distance from the goal
C5_Witness ==
    /\ resp.route = "home"
    /\ state = shuffle
    /\ Dist(state) = Diameter

\* the number of pairs of tiles of b that stand in descending order
Inversions(b) ==
    Cardinality({p \in BoardPairs : b[p[1]] # 0 /\ b[p[2]] # 0 /\ b[p[1]] > b[p[2]]})

OddBoard(b) == IsBoard(b) /\ Inversions(b) % 2 = 1

Queries == {"minimum-moves", "solve", "hint"}

\* C6: while the current board is a permutation of 0..8 of odd inversion parity,
\* every answer of minimum-moves, solve and hint is an error, with no move count and
\* no path, and a_star_with_path was not called to produce it.
C6_OddBoardRefused ==
    (OddBoard(state) /\ resp.route \in Queries) =>
        /\ resp.error # NoError
        /\ resp.passed = None
        /\ resp.count = 0 /\ resp.path = <<>>

C6_Witness ==
    /\ OddBoard(state)
    /\ Dist(Twist(state)) = HeldDepth
    /\ resp.route = "solve"
    /\ resp.error = "No solution available"

\* the board of C7
SevenEight == <<1, 2, 3, 4, 5, 6, 0, 7, 8>>

\* C7 as stated: the board [1,2,3,4,5,6,0,7,8] has an odd inversion count, and solve
\* on it answers with an error, without move count or path.
C7_SevenEightUnsolvable ==
    (state = SevenEight /\ resp.route = "solve") =>
        /\ Inversions(SevenEight) % 2 = 1
        /\ resp.error # NoError /\ resp.count = 0 /\ resp.path = <<>>

\* C7 as the code has it: the board [1,2,3,4,5,6,0,7,8] has no inversions, which is
\* even, and solve on it answers without error with 2 moves and a path of 2 boards
\* that ends in the goal.
C7_SevenEightSolved ==
    /\ Inversions(SevenEight) = 0
    /\ (state = SevenEight /\ resp.route = "solve") =>
           /\ resp.error = NoError
           /\ resp.count = 2
           /\ resp.path = << <<1, 2, 3, 4, 5, 6, 7, 0, 8>>, goal >>

C7_Witness ==
    /\ state = SevenEight
    /\ resp.route = "solve"
    /\ resp.passed = SevenEight
    /\ resp.count = 2

\* C8: the current board is absent or a permutation of 0..8, and so is every board
\* handed to a_star_with_path.
C8_MalformedRejected ==
    /\ state = <<>> \/ IsBoard(state)
    /\ resp.passed = None \/ IsBoard(resp.passed)

\* the frontier entries that were in the frontier when the last pop took place
Passed(a) == {a.pq[i] : i \in {j \in 1..Len(a.pq) : a.pq[j].ins < a.pushesAtPop}}

\* C9: the entry popped has the least f of the frontier, and every entry of the same
\* f that it left behind was pushed after it.
C9_FifoTieBreak ==
    (search.status # "idle" /\ search.popped # NoEntry) =>
        \A q \in Passed(search) :
            \/ search.popped.f < q.f
            \/ search.popped.f = q.f /\ search.popped.ins < q.ins

\* C10: a solved result's count is the length of its path; the path does not begin
\* with the start board; it ends in the goal, or is empty when the start is the goal;
\* and each board of start, path[0], path[1], ... is one slide from the one before.
C10_PathValid ==
    (search.status = "solved") =>
        LET s == search.start
            path == search.path
            walk == <<s>> \o path
        IN  /\ search.count = Len(path)
            /\ path # <<>> => path[1] # s
            /\ IF s = goal THEN path = <<>> ELSE path # <<>> /\ path[Len(path)] = goal
            /\ \A i \in 1..Len(path) : walk[i + 1] \in Slides(walk[i])

C10_Witness ==
    /\ search.status = "solved"
    /\ search.heuristic = "linear"
    /\ Len(search.path) = MaxDepth
    /\ search.path[1] # search.start

\* C11: on a solvable board, with each of the three heuristics, the frontier is not
\* empty while the search runs, and the search does not return (-1, []).
C11_FrontierNeverEmpty ==
    (search.heuristic \in HeuristicNames /\ is_solvable(search.start)) =>
        /\ search.status \in {"running", "solved"}
        /\ search.status = "running" => search.pq # <<>>
        /\ search.status = "solved" => search.count >= 0 /\ search.popped.board = goal

C11_Witness ==
    /\ search.status = "solved"
    /\ search.heuristic = "manhattan"
    /\ search.count = MaxDepth
    /\ search.pq # <<>>

\* C12: the entries of the frontier are totally ordered, no two of them equal in the
\* order, so each pop has one outcome; and a call on the board and heuristic of a
\* returned search returns the same count and the same path.
C12_Deterministic ==
    /\ \A i, j \in 1..Len(search.pq) :
           i < j => EntryLess(search.pq[i], search.pq[j])
                    /\ ~EntryLess(search.pq[j], search.pq[i])
    /\ search.status = "solved" =>
           LET r == a_star_with_path(search.start, search.heuristic)
           IN  r.status = "solved" /\ r.count = search.count /\ r.path = search.path

\* a returned search that popped among three entries or more of the same f
C12_Witness ==
    /\ search.status = "solved"
    /\ search.count > 0
    /\ Cardinality({i \in 1..Len(search.pq) : search.pq[i].f = search.popped.f}) >= 2

\* C13: called with a name the table lacks, the search does not fail, and it returns
\* the count and the path of the call with "manhattan" on the same board.
C13_UnknownFallsBack ==
    (search.heuristic \in UnknownNames) =>
        /\ search.status \in {"running", "solved"}
        /\ search.f[search.start] = h_manhattan(search.start)
        /\ search.status = "solved" =>
               LET r == a_star_with_path(search.start, "manhattan")
               IN  r.count = search.count /\ r.path = search.path

C13_Witness ==
    /\ search.status = "solved"
    /\ search.heuristic = "euclid"
    /\ search.count = MaxDepth
    /\ search.path = a_star_with_path(state, "manhattan").path

\* C14: a minimum-moves, solve or hint request leaves the session's board and move
\* counter as they were, and the board it handed to a_star_with_path is still the
\* session's board, unmodified, when it answers.
C14_QueriesLeaveGame ==
    [][resp'.route \in Queries =>
          /\ state' = state /\ moves' = moves
          /\ resp'.passed # None => resp'.passed = state]_vars

C14_Witness ==
    /\ resp.route = "solve"
    /\ resp.passed = state
    /\ resp.count > 0
    /\ moves = MaxMoves

\* what a session's game consists of is unchanged by a step: its board, its move
\* counter, its tile URLs and, when it has any, the image the URLs resolve to
GameKept(st, mv, tl, st2, mv2, tl2) ==
    /\ st2 = st /\ mv2 = mv /\ tl2 = tl
    /\ tl # <<>> => static' = static

\* C15: a request made in one session (one that changes that session) leaves the
\* other session's game as it was: board, move counter, and the images its tile URLs
\* resolve to.
C15_SessionsApart ==
    [][/\ peer' # peer => GameKept(state, moves, tiles, state', moves', tiles')
       /\ <<state', moves', tiles'>> # <<state, moves, tiles>> =>
              GameKept(peer.state, peer.moves, peer.tiles,
                       peer'.state, peer'.moves, peer'.tiles)]_vars

\* the cells of the blank and of tile t are orthogonal neighbours
Adjacent(b, t) ==
    LET zi == Index(b, 0)
        ti == Index(b, t)
    IN  \/ DivRow(zi) = DivRow(ti) /\ Abs(ModCol(zi) - ModCol(ti)) = 1
        \/ ModCol(zi) = ModCol(ti) /\ Abs(DivRow(zi) - DivRow(ti)) = 1

\* the board with the tile t and the blank exchanged
Slid(b, t) == [i \in 1..9 |-> IF b[i] = t THEN 0 ELSE IF b[i] = 0 THEN t ELSE b[i]]

\* C16: on a started game, a move request for a value t of the board exchanges t with
\* the blank and adds 1 to the move counter when t's cell is an orthogonal neighbour
\* of the blank's, and otherwise (t = 0 included) leaves board and counter unchanged.
C16_MoveLegality ==
    [][\A field \in TileInputs :
          (resp'.route = "move" /\ IsBoard(state) /\ IsNumeral(field)
              /\ Has(state, int(field)) /\ move_tile(field, MaxMoves)) =>
          IF Adjacent(state, int(field))
          THEN state' = Slid(state, int(field)) /\ moves' = moves + 1
          ELSE state' = state /\ moves' = moves]_vars

\* a move was accepted and one was refused on a board away from the goal
C16_Witness ==
    /\ resp.route = "move"
    /\ moves = MaxMoves
    /\ resp.count = MaxMoves
    /\ resp.path = state
    /\ Dist(state) = ShuffleDepth + MaxMoves

\* C17: in a game started by upload and continued by move and show-solution
\* requests, the current board is a permutation of 0..8 of even inversion parity that
\* slides from the goal reach, and minimum-moves and solve never answer with their
\* error.
C17_ParityKept ==
    /\ state # <<>> =>
           IsBoard(state) /\ Inversions(state) % 2 = 0 /\ Reachable(state)
    /\ (state # <<>> /\ resp.route \in {"minimum-moves", "solve"}) =>
           resp.error = NoError /\ resp.count = Dist(state)

C17_Witness ==
    /\ resp.route = "minimum-moves"
    /\ moves = MaxMoves
    /\ Inversions(state) > 0
    /\ resp.count = ShuffleDepth + MaxMoves

\* C18: the solved flag of a move request's response tells whether the session's
\* board is the goal board when the response is given.
C18_SolvedFlag ==
    (resp.route = "move" /\ resp.http = HttpOk) => (resp.solved <=> state = goal)

\* the boards the search has recorded, the start apart
Recorded(a) == DOMAIN a.g \ {a.start}

\* the number of steps of the parent chain from n to the start
ChainLen(a, n) == Len(path_back(a.parent, n))

====
